---- MODULE Spec2Model ----
(***************************************************************************)
(* Model of examples/depth.rs: a winit event loop that owns a swap chain,  *)
(* a depth attachment and a glyph brush, rebuilds the first two on         *)
(* Resized and renders one frame with two depth-ordered text sections on   *)
(* every EventsCleared.                                                    *)
(*                                                                         *)
(* Numbers.  Window sizes are f64; they are modelled in fixed point with   *)
(* Denom units per pixel, so that 1.25, 1.5 ... exist and f64::round and   *)
(* the `as u32` cast can be told apart.  Depth values and colour channels  *)
(* are modelled in hundredths (z = 0.9 is 90, clear depth -1.0 is -100).   *)
(***************************************************************************)
EXTENDS Integers, Sequences, FiniteSets, TLC

VARIABLES
    control_flow,   \* *control_flow of the event loop: "Poll" or "Exit"
    panicked,       \* TRUE once .expect("Draw queued") has panicked
    hidpi_factor,   \* window.hidpi_factor(), in Denom-ths
    size,           \* `size`: the tracked physical size (fixed point)
    swap_chain,     \* `swap_chain`: the descriptor it was created with
    depth_view,     \* `depth_view`: extent and stored depth values
    queue,          \* the glyph brush's pending sections
    framebuffer,    \* the last frame submitted (NoFrame before the first)
    drawn,          \* the sections the last draw_queued call consumed
    event,          \* the event the callback handled last
    last_resize,    \* the logical size carried by the last Resized event
    resize_repeated,\* TRUE when the last two events were equal Resized events
    ops,            \* the GPU calls the last callback invocation made
    depth_reused,   \* TRUE when the last frame drew on a depth view that held
                    \* depth values stored by an earlier frame
    harness         \* the flush test bench (SpecFlush); idle under Spec

vars == <<control_flow, panicked, hidpi_factor, size, swap_chain, depth_view,
          queue, framebuffer, drawn, event, last_resize, resize_repeated, ops,
          depth_reused, harness>>

program_vars == <<control_flow, panicked, hidpi_factor, size, swap_chain,
                  depth_view, queue, framebuffer, drawn, event, last_resize,
                  resize_repeated, ops, depth_reused>>

----------------------------------------------------------------------------
(* Bounds of the model *)

\* fixed-point denominator of the modelled f64 sizes
Denom == 4

\* largest logical width / height a window or a Resized event carries
MaxLogical == 2

\* width of the flush test bench's target, a strip one pixel high
BenchWidth == 2

LogicalDims == 0 .. MaxLogical

LogicalSizes == [width : LogicalDims, height : LogicalDims]

\* 1.0, 1 + 1/Denom, 1 + 2/Denom and 2.0
HidpiFactors == {Denom, Denom + 1, Denom + 2, 2 * Denom}

\* contents a freshly created texture may hold (uninitialised memory)
GarbageDepths == {-100, 100}

----------------------------------------------------------------------------
(* Numeric conversions *)

\* LogicalSize::to_physical: every dimension times the HiDPI factor
to_physical(logical, dpi) ==
    [width |-> logical.width * dpi, height |-> logical.height * dpi]

\* f64::round on a non-negative value: nearest integer, halves away from zero
f64_round(x) == ((2 * x + Denom) \div (2 * Denom)) * Denom

\* `as u32` on a non-negative f64: the fractional part is dropped
as_u32(x) == x \div Denom

Pixels(w, h) == (1 .. w) \X (1 .. h)

----------------------------------------------------------------------------
(* Swap chain and depth attachment *)

\* a SwapChainDescriptor built with `as u32` alone, as create_depth_view does
SwapChainDescriptor_truncated(sz) ==
    [usage |-> "OUTPUT_ATTACHMENT",
     format |-> "Bgra8UnormSrgb",
     width |-> as_u32(sz.width),
     height |-> as_u32(sz.height),
     present_mode |-> "Vsync"]

\* the SwapChainDescriptor both call sites build from `size`
SwapChainDescriptor(sz) ==
    [usage |-> "OUTPUT_ATTACHMENT",
     format |-> "Bgra8UnormSrgb",
     width |-> as_u32(f64_round(sz.width)),
     height |-> as_u32(f64_round(sz.height)),
     present_mode |-> "Vsync"]

\* device.create_swap_chain: the swap chain is known by its descriptor
create_swap_chain(desc) == desc

\* create_depth_view: a Depth32Float texture of extent
\* (size.width as u32, size.height as u32); `fill` is what the fresh texture
\* happens to hold
create_depth_view(sz, fill) ==
    [width |-> as_u32(sz.width),
     height |-> as_u32(sz.height),
     format |-> "Depth32Float",
     data |-> [p \in Pixels(as_u32(sz.width), as_u32(sz.height)) |-> fill]]

Extent(t) == <<t.width, t.height>>

----------------------------------------------------------------------------
(* Glyph pipeline *)

\* a depth-stencil state with the conventional test instead of the reversed one
depth_stencil_state_less ==
    [format |-> "Depth32Float",
     depth_write_enabled |-> TRUE,
     depth_compare |-> "Less",
     stencil_read_mask |-> 0,
     stencil_write_mask |-> 0]

\* a depth-stencil state that tests depth and never writes it
depth_stencil_state_no_write ==
    [format |-> "Depth32Float",
     depth_write_enabled |-> FALSE,
     depth_compare |-> "Greater",
     stencil_read_mask |-> 0,
     stencil_write_mask |-> 0]

\* a depth-stencil state whose test also passes fragments at the stored depth
depth_stencil_state_greater_equal ==
    [format |-> "Depth32Float",
     depth_write_enabled |-> TRUE,
     depth_compare |-> "GreaterEqual",
     stencil_read_mask |-> 0,
     stencil_write_mask |-> 0]

\* the depth-stencil state the glyph brush is built with
depth_stencil_state ==
    [format |-> "Depth32Float",
     depth_write_enabled |-> TRUE,
     depth_compare |-> "Greater",
     stencil_read_mask |-> 0,
     stencil_write_mask |-> 0]

\* a depth clear value of 0.0, the smallest depth key itself
clear_depth_zero == 100 - 100

\* depth clear value handed to draw_queued, in hundredths
clear_depth == -100

\* a depth attachment descriptor that keeps the depth of the frame before and
\* still clears the stencil
DepthStencilAttachment_keeps_depth(view) ==
    [attachment |-> view,
     depth_load_op |-> "Load",
     depth_store_op |-> "Store",
     stencil_load_op |-> "Clear",
     stencil_store_op |-> "Store",
     clear_depth |-> -100,
     clear_stencil |-> 0]

\* a depth attachment descriptor that loads the stored depth
DepthStencilAttachment_load(view) ==
    [attachment |-> view,
     depth_load_op |-> "Load",
     depth_store_op |-> "Store",
     stencil_load_op |-> "Load",
     stencil_store_op |-> "Store",
     clear_depth |-> -100,
     clear_stencil |-> 0]

\* the RenderPassDepthStencilAttachmentDescriptor handed to draw_queued
DepthStencilAttachment(view) ==
    [attachment |-> view,
     depth_load_op |-> "Clear",
     depth_store_op |-> "Store",
     stencil_load_op |-> "Clear",
     stencil_store_op |-> "Store",
     clear_depth |-> clear_depth,
     clear_stencil |-> 0]

\* colour the clear pass writes: (0.4, 0.4, 0.4, 1.0)
clear_color == <<40, 40, 40, 100>>

Unbounded == [bounded |-> FALSE, width |-> 0, height |-> 0]

\* the first section queued each frame
OnTopSection ==
    [screen_position |-> <<30, 30>>,
     bounds |-> Unbounded,
     text |-> "On top",
     scale |-> 95,
     color |-> <<80, 80, 80, 100>>,
     z |-> 90]

\* the second section queued each frame, bounded to the tracked size
BodySection(sz) ==
    [screen_position |-> <<0, 0>>,
     bounds |-> [bounded |-> TRUE, width |-> sz.width, height |-> sz.height],
     text |-> "lipsum",
     scale |-> 30,
     color |-> <<5, 5, 10, 100>>,
     z |-> 20]

\* glyph_brush.queue: append to the pending list
queue_section(q, section) == Append(q, section)

\* the comparison a CompareFunction stands for
DepthTest(compare, fragment, stored) ==
    CASE compare = "Greater" -> fragment > stored
      [] compare = "GreaterEqual" -> fragment >= stored
      [] compare = "Less" -> fragment < stored
      [] compare = "LessEqual" -> fragment <= stored
      [] compare = "Always" -> TRUE
      [] OTHER -> FALSE

\* a render pass attachment at its start: cleared, or what it held
LoadAttachment(load_op, data, clear_value) ==
    IF load_op = "Clear" THEN [p \in DOMAIN data |-> clear_value] ELSE data

\* Where the glyphs of a section put fragments on a w x h target.  The font
\* rasteriser is outside the program; this stand-in gives a one-line
\* "On top" set off from the origin and a body that inks every other pixel
\* inside its bounds, so that a target of 3 x 2 pixels has pixels covered by
\* both sections, by one of them and by none.
Rasterize(section, w, h) ==
    {p \in Pixels(w, h) :
        /\ \/ ~section.bounds.bounded
           \/ /\ (p[1] - 1) * Denom < section.bounds.width
              /\ (p[2] - 1) * Denom < section.bounds.height
        /\ IF section.text = "On top"
           THEN p[1] >= 2 /\ p[2] = 2
           ELSE (p[1] + p[2]) % 2 = 0}

RECURSIVE DrawFragments(_, _, _, _, _, _)
\* the fragments of sections i.. of q at pixel p, in queue order: a fragment
\* that passes the depth test replaces the colour and, with depth writes
\* enabled, the stored depth
DrawFragments(q, raster, state, i, p, cur) ==
    IF i > Len(q) THEN cur
    ELSE LET pass == /\ p \in raster[i]
                     /\ DepthTest(state.depth_compare, q[i].z, cur.depth)
             next == IF pass
                     THEN [color |-> q[i].color,
                           depth |-> IF state.depth_write_enabled
                                     THEN q[i].z ELSE cur.depth]
                     ELSE cur
         IN DrawFragments(q, raster, state, i + 1, p, next)

\* glyph_brush.draw_queued: one render pass over `color` (load = Load) and
\* the depth attachment, drawing every queued section; the queue is consumed.
\* raster[i] is the set of pixels section i puts fragments on.  Fragments
\* exist only where the width x height viewport, the colour target and the
\* depth attachment all have a pixel.
draw_queued(q, raster, state, color, depth_att, width, height) ==
    LET depth0 == LoadAttachment(depth_att.depth_load_op,
                                 depth_att.attachment.data,
                                 depth_att.clear_depth)
        area == (Pixels(width, height) \cap DOMAIN color) \cap DOMAIN depth0
        final(p) == DrawFragments(q, raster, state, 1, p,
                                  [color |-> color[p], depth |-> depth0[p]])
    IN [queue |-> <<>>,
        drawn |-> q,
        color |-> [p \in DOMAIN color |->
                     IF p \in area THEN final(p).color ELSE color[p]],
        depth |-> [p \in DOMAIN depth0 |->
                     IF p \in area THEN final(p).depth ELSE depth0[p]]]

----------------------------------------------------------------------------
(* The frame of the EventsCleared handler *)

\* colours a swap-chain image may hold when it is acquired
GarbageColors == {<<0, 0, 0, 0>>, <<80, 80, 80, 100>>}

\* swap_chain.get_next_texture: an image of the swap chain's extent
get_next_texture(sc, garbage) ==
    [width |-> sc.width,
     height |-> sc.height,
     data |-> [p \in Pixels(sc.width, sc.height) |-> garbage]]

\* a clear pass that loads the acquired image instead of clearing it
ClearPassColorAttachment_load ==
    [load_op |-> "Load", store_op |-> "Store", clear_color |-> clear_color]

\* the colour attachment of the clear pass
ClearPassColorAttachment ==
    [load_op |-> "Clear", store_op |-> "Store", clear_color |-> clear_color]

\* the GPU calls of one frame, in program order
FrameOps ==
    <<"create_command_encoder", "get_next_texture", "begin_render_pass",
      "queue", "queue", "draw_queued", "submit">>

\* the calls made when draw_queued returns Err and .expect panics
FailedFrameOps ==
    <<"create_command_encoder", "get_next_texture", "begin_render_pass",
      "queue", "queue", "draw_queued", "panic">>

\* a frame that queues the body section first and "On top" second
RenderFrame_body_first(sz, sc, dv, q, garbage) ==
    LET frame == get_next_texture(sc, garbage)
        cleared == LoadAttachment(ClearPassColorAttachment.load_op, frame.data,
                                  ClearPassColorAttachment.clear_color)
        q1 == queue_section(q, BodySection(sz))
        q2 == queue_section(q1, OnTopSection)
        width == as_u32(f64_round(sz.width))
        height == as_u32(f64_round(sz.height))
        raster == [i \in 1 .. Len(q2) |-> Rasterize(q2[i], width, height)]
        att == DepthStencilAttachment(dv)
        r == draw_queued(q2, raster, depth_stencil_state, cleared, att,
                         width, height)
    IN [queue |-> r.queue,
        drawn |-> r.drawn,
        depth_view |-> [dv EXCEPT !.data = r.depth],
        framebuffer |-> [rendered |-> TRUE,
                         color_extent |-> <<frame.width, frame.height>>,
                         depth_extent |-> Extent(dv),
                         draw_extent |-> <<width, height>>,
                         size |-> sz,
                         color |-> r.color]]

\* a frame whose clear pass is encoded after the glyph draw
RenderFrame_clear_after_draw(sz, sc, dv, q, garbage) ==
    LET frame == get_next_texture(sc, garbage)
        q1 == queue_section(q, OnTopSection)
        q2 == queue_section(q1, BodySection(sz))
        width == as_u32(f64_round(sz.width))
        height == as_u32(f64_round(sz.height))
        raster == [i \in 1 .. Len(q2) |-> Rasterize(q2[i], width, height)]
        att == DepthStencilAttachment(dv)
        r == draw_queued(q2, raster, depth_stencil_state, frame.data, att,
                         width, height)
        cleared == LoadAttachment(ClearPassColorAttachment.load_op, r.color,
                                  ClearPassColorAttachment.clear_color)
    IN [queue |-> r.queue,
        drawn |-> r.drawn,
        depth_view |-> [dv EXCEPT !.data = r.depth],
        framebuffer |-> [rendered |-> TRUE,
                         color_extent |-> <<frame.width, frame.height>>,
                         depth_extent |-> Extent(dv),
                         draw_extent |-> <<width, height>>,
                         size |-> sz,
                         color |-> cleared]]

\* a frame that queues the body section after the draw instead of before it
RenderFrame_queue_after_draw(sz, sc, dv, q, garbage) ==
    LET frame == get_next_texture(sc, garbage)
        cleared == LoadAttachment(ClearPassColorAttachment.load_op, frame.data,
                                  ClearPassColorAttachment.clear_color)
        q1 == queue_section(q, OnTopSection)
        width == as_u32(f64_round(sz.width))
        height == as_u32(f64_round(sz.height))
        raster == [i \in 1 .. Len(q1) |-> Rasterize(q1[i], width, height)]
        att == DepthStencilAttachment(dv)
        r == draw_queued(q1, raster, depth_stencil_state, cleared, att,
                         width, height)
    IN [queue |-> queue_section(r.queue, BodySection(sz)),
        drawn |-> r.drawn,
        depth_view |-> [dv EXCEPT !.data = r.depth],
        framebuffer |-> [rendered |-> TRUE,
                         color_extent |-> <<frame.width, frame.height>>,
                         depth_extent |-> Extent(dv),
                         draw_extent |-> <<width, height>>,
                         size |-> sz,
                         color |-> r.color]]

\* the body of the EventsCleared arm up to the submit: clear pass, the two
\* queue calls, draw_queued at (size.width.round() as u32,
\* size.height.round() as u32)
RenderFrame(sz, sc, dv, q, garbage) ==
    LET frame == get_next_texture(sc, garbage)
        cleared == LoadAttachment(ClearPassColorAttachment.load_op, frame.data,
                                  ClearPassColorAttachment.clear_color)
        q1 == queue_section(q, OnTopSection)
        q2 == queue_section(q1, BodySection(sz))
        width == as_u32(f64_round(sz.width))
        height == as_u32(f64_round(sz.height))
        raster == [i \in 1 .. Len(q2) |-> Rasterize(q2[i], width, height)]
        att == DepthStencilAttachment(dv)
        r == draw_queued(q2, raster, depth_stencil_state, cleared, att,
                         width, height)
    IN [queue |-> r.queue,
        drawn |-> r.drawn,
        depth_view |-> IF att.depth_store_op = "Store"
                       THEN [dv EXCEPT !.data = r.depth] ELSE dv,
        framebuffer |-> [rendered |-> TRUE,
                         color_extent |-> <<frame.width, frame.height>>,
                         depth_extent |-> Extent(dv),
                         draw_extent |-> <<width, height>>,
                         size |-> sz,
                         color |-> r.color]]

NoFrame == [rendered |-> FALSE]

NoResize == [width |-> -1, height |-> -1]

----------------------------------------------------------------------------
(* The program *)

HarnessIdle == [phase |-> "idle"]

\* main up to event_loop.run, for a window of logical size `inner`
Startup(dpi, inner, fill) ==
    /\ control_flow = "Poll"
    /\ panicked = FALSE
    /\ hidpi_factor = dpi
    /\ size = to_physical(inner, dpi)
    /\ swap_chain = create_swap_chain(SwapChainDescriptor(to_physical(inner, dpi)))
    /\ depth_view = create_depth_view(to_physical(inner, dpi), fill)
    /\ queue = <<>>
    /\ framebuffer = NoFrame
    /\ drawn = <<>>
    /\ event = "Init"
    /\ last_resize = NoResize
    /\ resize_repeated = FALSE
    /\ ops = <<"create_swap_chain", "create_texture">>
    /\ depth_reused = FALSE

Init ==
    /\ \E dpi \in HidpiFactors, fill \in GarbageDepths :
         \E inner \in {l \in LogicalSizes : l.width >= 1 /\ l.height >= 1} :
            Startup(dpi, inner, fill)
    /\ harness = HarnessIdle

\* event_loop.run calls the closure for every event until it has set
\* ControlFlow::Exit; a panic inside the closure ends the process
Running == control_flow # "Exit" /\ ~panicked

\* a CloseRequested arm that keeps the loop polling
on_close_requested_poll == "Poll"

\* what the CloseRequested arm assigns to *control_flow
on_close_requested == "Exit"

CloseRequested ==
    /\ Running
    /\ control_flow' = on_close_requested
    /\ event' = "CloseRequested"
    /\ ops' = <<>>
    /\ resize_repeated' = FALSE
    /\ UNCHANGED <<panicked, hidpi_factor, size, swap_chain, depth_view, queue,
                   framebuffer, drawn, last_resize, harness, depth_reused>>

\* a Resized arm that rebuilds the swap chain and keeps the old depth view
on_resized_stale_depth(st, new_size, dpi, fill) ==
    LET sz == to_physical(new_size, dpi)
    IN [size |-> sz,
        swap_chain |-> create_swap_chain(SwapChainDescriptor(sz)),
        depth_view |-> st.depth_view,
        ops |-> <<"create_swap_chain">>]

\* the Resized arm on the closure's state st: size, then the swap chain, then
\* the depth view
on_resized(st, new_size, dpi, fill) ==
    LET sz == to_physical(new_size, dpi)
    IN [size |-> sz,
        swap_chain |-> create_swap_chain(SwapChainDescriptor(sz)),
        depth_view |-> create_depth_view(sz, fill),
        ops |-> <<"create_swap_chain", "create_texture">>]

Resized ==
    /\ Running
    /\ \E new_size \in LogicalSizes, fill \in GarbageDepths :
         LET st == [size |-> size, swap_chain |-> swap_chain,
                    depth_view |-> depth_view]
             r == on_resized(st, new_size, hidpi_factor, fill)
         IN /\ size' = r.size
            /\ swap_chain' = r.swap_chain
            /\ depth_view' = r.depth_view
            /\ ops' = r.ops
            /\ last_resize' = new_size
            /\ resize_repeated' = (event = "Resized" /\ new_size = last_resize)
    /\ event' = "Resized"
    /\ UNCHANGED <<control_flow, panicked, hidpi_factor, queue, framebuffer,
                   drawn, harness, depth_reused>>

\* the EventsCleared arm when draw_queued returns Ok: the frame is submitted
EventsCleared ==
    /\ Running
    /\ \E garbage \in GarbageColors :
         LET r == RenderFrame(size, swap_chain, depth_view, queue, garbage)
         IN /\ queue' = r.queue
            /\ drawn' = r.drawn
            /\ depth_view' = r.depth_view
            /\ framebuffer' = r.framebuffer
    /\ depth_reused' = (\E p \in DOMAIN depth_view.data :
                            depth_view.data[p] \notin GarbageDepths)
    /\ ops' = FrameOps
    /\ event' = "EventsCleared"
    /\ resize_repeated' = FALSE
    /\ UNCHANGED <<control_flow, panicked, hidpi_factor, size, swap_chain,
                   last_resize, harness>>

\* an EventsCleared arm that submits the encoder before it looks at the
\* result of draw_queued
EventsClearedDrawFailed_submits_first ==
    /\ Running
    /\ \E garbage \in GarbageColors :
         LET r == RenderFrame(size, swap_chain, depth_view, queue, garbage)
         IN /\ queue' = r.queue
            /\ drawn' = r.drawn
            /\ depth_view' = r.depth_view
            /\ framebuffer' = r.framebuffer
    /\ panicked' = TRUE
    /\ ops' = <<"create_command_encoder", "get_next_texture",
                "begin_render_pass", "queue", "queue", "draw_queued", "submit",
                "panic">>
    /\ event' = "EventsCleared"
    /\ resize_repeated' = FALSE
    /\ UNCHANGED <<control_flow, hidpi_factor, size, swap_chain, last_resize,
                   harness, depth_reused>>

\* the EventsCleared arm when draw_queued returns Err: .expect panics before
\* the submit
EventsClearedDrawFailed ==
    /\ Running
    /\ \E garbage \in GarbageColors :
         LET r == RenderFrame(size, swap_chain, depth_view, queue, garbage)
         IN /\ queue' = r.queue
            /\ drawn' = r.drawn
    /\ panicked' = TRUE
    /\ ops' = FailedFrameOps
    /\ event' = "EventsCleared"
    /\ resize_repeated' = FALSE
    /\ UNCHANGED <<control_flow, hidpi_factor, size, swap_chain, depth_view,
                   framebuffer, last_resize, harness, depth_reused>>

\* a catch-all arm that rebuilds the depth view
OtherEvent_rebuilds_depth ==
    /\ Running
    /\ event' = "Other"
    /\ \E fill \in GarbageDepths : depth_view' = create_depth_view(size, fill)
    /\ ops' = <<"create_texture">>
    /\ resize_repeated' = FALSE
    /\ UNCHANGED <<control_flow, panicked, hidpi_factor, size, swap_chain,
                   queue, framebuffer, drawn, last_resize, harness,
                   depth_reused>>

\* a catch-all arm that ends the loop
OtherEvent_exits ==
    /\ Running
    /\ event' = "Other"
    /\ control_flow' = "Exit"
    /\ ops' = <<>>
    /\ resize_repeated' = FALSE
    /\ UNCHANGED <<panicked, hidpi_factor, size, swap_chain, depth_view, queue,
                   framebuffer, drawn, last_resize, harness, depth_reused>>

\* the `_ => {}` arm
OtherEvent ==
    /\ Running
    /\ event' = "Other"
    /\ ops' = <<>>
    /\ resize_repeated' = FALSE
    /\ UNCHANGED <<control_flow, panicked, hidpi_factor, size, swap_chain,
                   depth_view, queue, framebuffer, drawn, last_resize, harness, depth_reused>>

\* after ControlFlow::Exit the loop sends LoopDestroyed once; it falls into
\* the `_ => {}` arm
LoopDestroyed ==
    /\ control_flow = "Exit"
    /\ ~panicked
    /\ event # "LoopDestroyed"
    /\ event' = "LoopDestroyed"
    /\ ops' = <<>>
    /\ resize_repeated' = FALSE
    /\ UNCHANGED <<control_flow, panicked, hidpi_factor, size, swap_chain,
                   depth_view, queue, framebuffer, drawn, last_resize, harness, depth_reused>>

Next ==
    \/ CloseRequested
    \/ Resized
    \/ EventsCleared
    \/ EventsClearedDrawFailed
    \/ OtherEvent
    \/ LoopDestroyed

Spec == Init /\ [][Next]_vars

----------------------------------------------------------------------------
(* The flush on arbitrary inputs: two sections with any depth keys and any *)
(* coverage, queued in both orders against the program's pipeline state    *)

\* depth keys the bench gives a section: the ends of [0.0, 1.0] and the
\* program's two values
ZValues == {0, 20, 90, 100}

BenchPixels == Pixels(BenchWidth, 1)

BenchSize == [width |-> BenchWidth * Denom, height |-> Denom]

\* the target after the clear pass
BenchColor == [p \in BenchPixels |-> ClearPassColorAttachment.clear_color]

\* draw_queued on the bench target, as the EventsCleared arm calls it
BenchFlush(q, raster, fill) ==
    draw_queued(q, raster, depth_stencil_state, BenchColor,
                DepthStencilAttachment(create_depth_view(BenchSize, fill)),
                BenchWidth, 1)

InitFlush ==
    /\ Startup(Denom, [width |-> 1, height |-> 1], clear_depth)
    /\ \E za \in ZValues, zb \in ZValues :
         \E ca \in SUBSET BenchPixels, cb \in SUBSET BenchPixels :
            harness = [phase |-> "queued",
                       queue |-> <<[OnTopSection EXCEPT !.z = za],
                                   [BodySection(BenchSize) EXCEPT !.z = zb]>>,
                       raster |-> <<ca, cb>>]

\* flush the queue in the order given
FlushInOrder ==
    /\ harness.phase = "queued"
    /\ \E fill \in GarbageDepths :
         harness' = [phase |-> "flushed",
                     queue |-> harness.queue,
                     raster |-> harness.raster,
                     out |-> BenchFlush(harness.queue, harness.raster, fill)]
    /\ UNCHANGED program_vars

\* flush the same two sections queued the other way round
FlushReversed ==
    /\ harness.phase = "flushed"
    /\ \E fill \in GarbageDepths :
         harness' = [phase |-> "compared",
                     queue |-> harness.queue,
                     raster |-> harness.raster,
                     out |-> harness.out,
                     rev |-> BenchFlush(<<harness.queue[2], harness.queue[1]>>,
                                        <<harness.raster[2], harness.raster[1]>>,
                                        fill)]
    /\ UNCHANGED program_vars

NextFlush == FlushInOrder \/ FlushReversed

SpecFlush == InitFlush /\ [][NextFlush]_vars

----------------------------------------------------------------------------
(* The flush with the depth clear value as an input: the program's -1.0,   *)
(* and 0.9 and 0.95, which lie at and above the depth key of "On top"      *)

BenchClearDepths == {clear_depth, 90, 95}

\* draw_queued on the bench target with clear_depth replaced by c
BenchFlushCleared(q, raster, fill, c) ==
    draw_queued(q, raster, depth_stencil_state, BenchColor,
                [DepthStencilAttachment(create_depth_view(BenchSize, fill))
                    EXCEPT !.clear_depth = c],
                BenchWidth, 1)

InitClear ==
    /\ Startup(Denom, [width |-> 1, height |-> 1], clear_depth)
    /\ \E za \in ZValues, zb \in ZValues, c \in BenchClearDepths :
         \E ca \in SUBSET BenchPixels, cb \in SUBSET BenchPixels :
            harness = [phase |-> "clear_queued",
                       queue |-> <<[OnTopSection EXCEPT !.z = za],
                                   [BodySection(BenchSize) EXCEPT !.z = zb]>>,
                       raster |-> <<ca, cb>>,
                       clear |-> c]

\* flush the queue against a depth attachment cleared to harness.clear
FlushCleared ==
    /\ harness.phase = "clear_queued"
    /\ \E fill \in GarbageDepths :
         harness' = [phase |-> "clear_flushed",
                     queue |-> harness.queue,
                     raster |-> harness.raster,
                     clear |-> harness.clear,
                     out |-> BenchFlushCleared(harness.queue, harness.raster,
                                               fill, harness.clear)]
    /\ UNCHANGED program_vars

NextClear == FlushCleared

SpecClear == InitClear /\ [][NextClear]_vars

----------------------------------------------------------------------------
(* Properties *)

HasOp(o, name) == \E i \in DOMAIN o : o[i] = name

\* the extent a physical size rounds to
RoundedExtent(sz) == <<as_u32(f64_round(sz.width)), as_u32(f64_round(sz.height))>>

\* C1: in every rendered frame the depth attachment's extent equals the swap
\* chain's extent, which equals the extent the frame is drawn at, whatever
\* (possibly non-integer) physical size the window has.
C1_FrameExtentsAgree ==
    framebuffer.rendered =>
        /\ framebuffer.depth_extent = framebuffer.color_extent
        /\ framebuffer.color_extent = framebuffer.draw_extent

\* C3: the frame rendered after a Resized event to physical size (W', H')
\* uses the extent (W', H') rounds to for the swap chain, for the depth
\* attachment and for the draw dimensions.
C3_FrameAfterResizeUsesNewSize ==
    (event = "EventsCleared" /\ ~panicked /\ last_resize # NoResize) =>
        LET new == RoundedExtent(to_physical(last_resize, hidpi_factor))
        IN /\ framebuffer.color_extent = new
           /\ framebuffer.depth_extent = new
           /\ framebuffer.draw_extent = new

\* C4: a callback invocation that rebuilds the swap chain rebuilds the depth
\* attachment as its very next GPU call, from the same size, and does
\* nothing else: it handles a Resized event, renders no frame and submits
\* nothing; and the swap chain and the depth view change in no other step.
C4_RebuildsArePaired ==
    [][/\ HasOp(ops', "create_swap_chain") =>
            /\ ops' = <<"create_swap_chain", "create_texture">>
            /\ event' = "Resized"
            /\ swap_chain' = create_swap_chain(SwapChainDescriptor(size'))
            /\ \E fill \in GarbageDepths :
                 depth_view' = create_depth_view(size', fill)
            /\ framebuffer' = framebuffer
       /\ (swap_chain' # swap_chain \/ Extent(depth_view') # Extent(depth_view)) =>
            HasOp(ops', "create_swap_chain")
      ]_vars

\* C4 witness: a Resized event was handled after a frame had been rendered,
\* and it changed the extent of both the swap chain and the depth view.
C4_Witness ==
    /\ event = "Resized"
    /\ framebuffer.rendered
    /\ ops = <<"create_swap_chain", "create_texture">>
    /\ <<swap_chain.width, swap_chain.height>> # framebuffer.color_extent
    /\ Extent(depth_view) # framebuffer.depth_extent

\* C5: the glyph queue is empty after every flush and whenever a frame can
\* begin: no state between two callback invocations has a pending section.
C5_QueueEmptyAfterFlush ==
    /\ queue = <<>>
    /\ HasOp(ops, "draw_queued") => Len(drawn) >= 1

\* C5 witness: a frame was flushed with its two sections and submitted.
C5_Witness ==
    /\ event = "EventsCleared"
    /\ ~panicked
    /\ ops = FrameOps
    /\ Len(drawn) = 2
    /\ queue = <<>>

\* the frames the next EventsCleared can produce from the current state
FrameOutputs ==
    {RenderFrame(size, swap_chain, depth_view, queue, g).framebuffer :
        g \in GarbageColors}

\* C7: a Resized event carrying the same size as the Resized event handled
\* just before it leaves the swap chain's and the depth attachment's extent
\* as they were, and the frame rendered next is the frame that would have
\* been rendered after the first of the two.
C7_SameResizeTwice ==
    [][(event = "Resized" /\ event' = "Resized" /\ last_resize' = last_resize) =>
            /\ swap_chain' = swap_chain
            /\ Extent(depth_view') = Extent(depth_view)
            /\ size' = size
            /\ FrameOutputs' = FrameOutputs
      ]_vars

\* C7 witness: two equal Resized events in a row, to a size whose frame has
\* pixels covered by glyphs.
C7_Witness ==
    /\ resize_repeated
    /\ event = "Resized"
    /\ swap_chain.width >= 2
    /\ swap_chain.height >= 2

\* C8: no swap chain and no depth texture is ever created with a width or a
\* height of zero.
C8_NoZeroDimension ==
    /\ swap_chain.width >= 1
    /\ swap_chain.height >= 1
    /\ depth_view.width >= 1
    /\ depth_view.height >= 1

C11_OnlyCloseLeavesRunning ==
    ~Running => event \in {"CloseRequested", "LoopDestroyed"}

\* C11 amended: the program leaves the running state only by handling
\* CloseRequested, which sets ControlFlow::Exit, or by the panic of
\* .expect("Draw queued") in an EventsCleared whose draw_queued returned Err;
\* no Resized event, no other event and no frame whose draw succeeds ends it.
C11_OnlyCloseOrDrawPanicLeavesRunning ==
    [][(Running /\ ~Running') =>
            \/ /\ event' = "CloseRequested"
               /\ control_flow' = "Exit"
               /\ ~panicked'
            \/ /\ event' = "EventsCleared"
               /\ panicked'
               /\ HasOp(ops', "panic")
               /\ control_flow' = control_flow
      ]_vars

\* C11 witness: after a resize and a frame the loop is still running, and one
\* more event has been ignored.
C11_Witness ==
    /\ Running
    /\ event = "Other"
    /\ framebuffer.rendered
    /\ last_resize # NoResize

\* C12: when draw_queued returns Err the callback panics: that frame is not
\* submitted (the last submitted frame and the depth view stay as they
\* were), and afterwards no event is handled, so nothing is retried.
C12_DrawErrorTerminates ==
    [][/\ (~panicked /\ panicked') =>
            /\ event' = "EventsCleared"
            /\ ~HasOp(ops', "submit")
            /\ HasOp(ops', "draw_queued")
            /\ framebuffer' = framebuffer
            /\ depth_view' = depth_view
       /\ panicked => UNCHANGED vars
      ]_vars

\* C12 witness: a frame was submitted, and a later frame's draw failed.
C12_Witness ==
    /\ panicked
    /\ event = "EventsCleared"
    /\ framebuffer.rendered
    /\ ops = FailedFrameOps

\* the window's physical size when the current swap chain was created: the
\* size of the last Resized event times the HiDPI factor, or the startup size
WindowPhysicalSize ==
    IF last_resize = NoResize THEN size
    ELSE [width |-> last_resize.width * hidpi_factor,
          height |-> last_resize.height * hidpi_factor]

\* n is the integer nearest to the non-negative fixed-point value x, a half
\* going up
IsNearestInteger(n, x) ==
    /\ 2 * (n * Denom - x) <= Denom
    /\ 2 * (x - n * Denom) < Denom

\* C13: the current swap chain, created at startup or by the last Resized
\* event, has the width and the height of the window's physical size at that
\* moment, each rounded to the nearest integer.
C13_SwapChainIsRoundedWindowSize ==
    /\ IsNearestInteger(swap_chain.width, WindowPhysicalSize.width)
    /\ IsNearestInteger(swap_chain.height, WindowPhysicalSize.height)

\* C13 witness: a Resized event gave a physical width with a fractional part
\* of a half or more, and the swap chain's width is the next integer up.
C13_Witness ==
    /\ event = "Resized"
    /\ size.width % Denom # 0
    /\ 2 * (size.width % Denom) >= Denom
    /\ swap_chain.width = (size.width \div Denom) + 1

\* the pixels of the last submitted frame on which glyph fragments exist
FrameArea ==
    (Pixels(framebuffer.draw_extent[1], framebuffer.draw_extent[2])
        \cap Pixels(framebuffer.color_extent[1], framebuffer.color_extent[2]))
        \cap Pixels(framebuffer.depth_extent[1], framebuffer.depth_extent[2])

\* the pixels of the last submitted frame a section covers
FrameCoverage(section) ==
    FrameArea \cap Rasterize(section, framebuffer.draw_extent[1],
                             framebuffer.draw_extent[2])

\* the calls of a frame up to the flush, in the order the claim gives
StepsUpToFlush ==
    <<"create_command_encoder", "get_next_texture", "begin_render_pass",
      "queue", "queue", "draw_queued">>

\* C15 as claimed: every EventsCleared runs create encoder, acquire image,
\* clear pass, two queue calls, flush and exactly one submit, in this order.
C15_EveryTickSubmitsOneFrame ==
    event = "EventsCleared" => ops = StepsUpToFlush \o <<"submit">>

\* C15 amended: every EventsCleared runs create encoder, acquire image, clear
\* pass, two queue calls and the flush in this order; when draw_queued
\* returns Ok exactly one submit of the one encoder follows and the glyphs
\* drawn by the flush are in the submitted image, not cleared away; when it
\* returns Err the callback panics instead and submits nothing.
C15_FrameStepsInOrder ==
    event = "EventsCleared" =>
        /\ SubSeq(ops, 1, Len(StepsUpToFlush)) = StepsUpToFlush
        /\ Len(drawn) = 2
        /\ ~panicked =>
             /\ ops = StepsUpToFlush \o <<"submit">>
             /\ \A p \in FrameCoverage(OnTopSection) :
                  framebuffer.color[p] = OnTopSection.color
        /\ panicked => ops = StepsUpToFlush \o <<"panic">>

\* C15 witness: a submitted frame in which "On top" shows at pixel (2, 2).
C15_Witness ==
    /\ event = "EventsCleared"
    /\ ~panicked
    /\ ops = StepsUpToFlush \o <<"submit">>
    /\ <<2, 2>> \in FrameCoverage(OnTopSection)
    /\ framebuffer.color[<<2, 2>>] = OnTopSection.color

\* C16: every flush consumes exactly two sections, "On top" at z = 0.9
\* first and the body text at z = 0.2 second, and no state has more than two
\* sections pending.
C16_TwoSectionsPerFlush ==
    /\ Len(queue) <= 2
    /\ HasOp(ops, "draw_queued") =>
         /\ Len(drawn) = 2
         /\ drawn[1].text = "On top"
         /\ drawn[1].z = 90
         /\ drawn[2].text = "lipsum"
         /\ drawn[2].z = 20

\* C16 witness: after a resize, a frame was flushed on a depth view that an
\* earlier frame had already drawn on, again with two sections.
C16_Witness ==
    /\ event = "EventsCleared"
    /\ HasOp(ops, "draw_queued")
    /\ depth_reused
    /\ last_resize # NoResize
    /\ Len(drawn) = 2

\* C17: in every submitted frame, each pixel that neither section covers
\* holds the clear colour (0.4, 0.4, 0.4, 1.0): the flush keeps what the
\* clear pass wrote.
C17_UncoveredPixelsKeepClearColor ==
    framebuffer.rendered =>
        \A p \in DOMAIN framebuffer.color :
            (/\ p \notin FrameCoverage(OnTopSection)
             /\ p \notin FrameCoverage(BodySection(framebuffer.size))) =>
                framebuffer.color[p] = <<40, 40, 40, 100>>

\* C17 witness: a submitted frame with a pixel no glyph covers, holding the
\* clear colour, next to a pixel showing the body text.
C17_Witness ==
    /\ framebuffer.rendered
    /\ <<2, 1>> \in DOMAIN framebuffer.color
    /\ <<2, 1>> \notin FrameCoverage(OnTopSection)
    /\ <<2, 1>> \notin FrameCoverage(BodySection(framebuffer.size))
    /\ framebuffer.color[<<2, 1>>] = <<40, 40, 40, 100>>
    /\ framebuffer.color[<<1, 1>>] = BodySection(framebuffer.size).color

\* C18: handling an event other than CloseRequested, Resized and
\* EventsCleared changes neither the tracked size, the swap chain, the depth
\* view, the glyph queue, the last submitted frame nor the control flow, and
\* makes no GPU call.
C18_OtherEventsIgnored ==
    [][event' \in {"Other", "LoopDestroyed"} =>
            /\ size' = size
            /\ swap_chain' = swap_chain
            /\ depth_view' = depth_view
            /\ queue' = queue
            /\ framebuffer' = framebuffer
            /\ control_flow' = control_flow
            /\ panicked' = panicked
            /\ Running' = Running
            /\ ops' = <<>>
      ]_vars

\* C18 witness: another event was handled while running, after frames had
\* been drawn on the current depth view.
C18_Witness ==
    /\ event = "Other"
    /\ Running
    /\ ops = <<>>
    /\ depth_reused
    /\ swap_chain.width >= 2

\* the image of the first frame of a run started at tracked size sz, for a
\* fresh depth texture holding `fill` and an acquired image holding `garbage`
FirstFrameAt(sz, fill, garbage) ==
    RenderFrame(sz, create_swap_chain(SwapChainDescriptor(sz)),
                create_depth_view(sz, fill), <<>>, garbage).framebuffer.color

\* C19: the image of every submitted frame is the image a run produces in
\* its very first frame at the same tracked size, whatever the textures held
\* before; so any two runs that reach a frame with the same tracked size
\* show the same image, whatever frames and resizes came before.
C19_FrameDependsOnSizeOnly ==
    framebuffer.rendered =>
        \A fill \in GarbageDepths, garbage \in GarbageColors :
            framebuffer.color = FirstFrameAt(framebuffer.size, fill, garbage)

\* C19 witness: a frame drawn on a depth view that still held the depth
\* values an earlier frame stored, showing "On top" at pixel (2, 2).
C19_Witness ==
    /\ event = "EventsCleared"
    /\ ~panicked
    /\ depth_reused
    /\ <<2, 2>> \in FrameCoverage(OnTopSection)
    /\ depth_view.data[<<2, 2>>] = OnTopSection.z
    /\ framebuffer.color[<<2, 2>>] = OnTopSection.color

----------------------------------------------------------------------------
(* Properties of the flush (SpecFlush) *)

Flushed == harness.phase \in {"flushed", "compared"}

BothCover(p) == p \in harness.raster[1] /\ p \in harness.raster[2]

\* C2: with depth writes, compare Greater and the depth cleared to -1.0,
\* wherever two queued sections overlap the one with the larger depth key
\* has its colour in the final image, whichever was queued first.
C2_HighestDepthKeyWins ==
    /\ Flushed =>
         \A p \in BenchPixels : \A i \in {1, 2}, j \in {1, 2} :
            (BothCover(p) /\ harness.queue[i].z > harness.queue[j].z) =>
                harness.out.color[p] = harness.queue[i].color
    /\ harness.phase = "compared" =>
         \A p \in BenchPixels : \A i \in {1, 2}, j \in {1, 2} :
            (BothCover(p) /\ harness.queue[i].z > harness.queue[j].z) =>
                harness.rev.color[p] = harness.queue[i].color

\* C2 witness: "On top" at z = 0.9 queued first and the body at z = 0.2 queued
\* last overlap at a pixel, and the pixel shows the colour of "On top".
C2_Witness ==
    /\ harness.phase = "flushed"
    /\ harness.queue[1].z = OnTopSection.z
    /\ harness.queue[2].z = BodySection(BenchSize).z
    /\ BothCover(<<1, 1>>)
    /\ harness.out.color[<<1, 1>>] = OnTopSection.color

\* C6: queued in reversed order, two sections with distinct depth keys give
\* the same colour and the same depth at every pixel as in the given order.
C6_QueueOrderIrrelevant ==
    (harness.phase = "compared" /\ harness.queue[1].z # harness.queue[2].z) =>
        /\ harness.rev.color = harness.out.color
        /\ harness.rev.depth = harness.out.depth

\* C6 witness: the program's two depth keys, overlapping sections, both
\* orders flushed.
C6_Witness ==
    /\ harness.phase = "compared"
    /\ harness.queue[1].z = OnTopSection.z
    /\ harness.queue[2].z = BodySection(BenchSize).z
    /\ BothCover(<<1, 1>>)
    /\ harness.rev.color[<<1, 1>>] = OnTopSection.color

\* C9: for every depth key in [0.0, 1.0], the ends included, the first
\* fragment written at a pixel passes the test against the cleared depth:
\* the pixel leaves the clear colour and stores a depth no smaller than the
\* key, and a pixel only that section covers shows the section's colour.
C9_FirstFragmentPasses ==
    Flushed =>
        \A p \in BenchPixels : \A i \in {1, 2} :
            (p \in harness.raster[i] /\ \A j \in 1 .. (i - 1) : p \notin harness.raster[j]) =>
                /\ harness.out.color[p] # ClearPassColorAttachment.clear_color
                /\ harness.out.depth[p] >= harness.queue[i].z
                /\ p \notin harness.raster[3 - i] =>
                     harness.out.color[p] = harness.queue[i].color

\* C9 witness: a section at z = 0.0 and a section at z = 1.0, each alone on
\* a pixel, both rendered.
C9_Witness ==
    /\ harness.phase = "flushed"
    /\ harness.queue[1].z = 0
    /\ harness.queue[2].z = 100
    /\ harness.raster = <<{<<1, 1>>}, {<<2, 1>>}>>
    /\ harness.out.color[<<1, 1>>] = harness.queue[1].color
    /\ harness.out.color[<<2, 1>>] = harness.queue[2].color

----------------------------------------------------------------------------
(* Properties of the flush with a chosen clear depth (SpecClear) *)

\* the first queued section's fragment at p is written
FirstWritten(p) ==
    p \in harness.raster[1] /\ harness.queue[1].z > harness.clear

\* the depth stored at p once the first section is drawn
DepthAfterFirst(p) ==
    IF FirstWritten(p) THEN harness.queue[1].z ELSE harness.clear

\* the second queued section's fragment at p is written
SecondWritten(p) ==
    p \in harness.raster[2] /\ harness.queue[2].z > DepthAfterFirst(p)

\* C14: a fragment is written exactly when its depth is strictly greater
\* than the depth stored at its pixel, so every pixel ends with the colour
\* and depth of the last fragment that was strictly greater; and with the
\* depth cleared to 0.95 a section at z = 0.9 is written nowhere.
C14_WrittenIffStrictlyGreater ==
    harness.phase = "clear_flushed" =>
        /\ \A p \in BenchPixels :
            /\ harness.out.color[p] =
                 IF SecondWritten(p) THEN harness.queue[2].color
                 ELSE IF FirstWritten(p) THEN harness.queue[1].color
                 ELSE ClearPassColorAttachment.clear_color
            /\ harness.out.depth[p] =
                 IF SecondWritten(p) THEN harness.queue[2].z
                 ELSE DepthAfterFirst(p)
        /\ harness.clear = 95 =>
             \A i \in {1, 2}, p \in BenchPixels :
                harness.queue[i].z = OnTopSection.z =>
                    /\ harness.out.color[p] # harness.queue[i].color
                    /\ harness.out.depth[p] # harness.queue[i].z

\* C14 witness: the depth was cleared to 0.95, "On top" at z = 0.9 covers
\* every pixel and the body at z = 0.2 one of them, and the whole target
\* still shows the clear colour.
C14_Witness ==
    /\ harness.phase = "clear_flushed"
    /\ harness.clear = 95
    /\ harness.queue[1].z = OnTopSection.z
    /\ harness.queue[2].z = BodySection(BenchSize).z
    /\ harness.raster = <<BenchPixels, {<<1, 1>>}>>
    /\ \A p \in BenchPixels :
         harness.out.color[p] = ClearPassColorAttachment.clear_color

====
